---- MODULE Spec2Model ----
(***************************************************************************)
(* Model of main.py: the BLE gate controller of the Pico W.                *)
(*                                                                         *)
(* The program is one cooperative loop (main.py 254-275) and one transport *)
(* callback, ble_handler (main.py 109-202).  Text (the characteristic's    *)
(* value, the response tokens) is a sequence of one-character strings, so  *)
(* that strip(), lower(), split(), int() and the formatting of the         *)
(* response are computed and not assumed.                                  *)
(*                                                                         *)
(* Time.  The program uses the millisecond clock only in                   *)
(* ticks_diff(current_time_ms, last_blink_time_ms) (main.py 264), so the   *)
(* model keeps that difference, since_blink_ms: the time since the value   *)
(* stored in last_blink_time_ms.  It grows where the code sleeps and is    *)
(* zero when the loop stores current_time_ms.  It is kept up to            *)
(* elapsed_cap, the largest blink interval of any reading the centrals of  *)
(* the run report plus one loop sleep: every comparison the code makes     *)
(* then has the result it has on the real clock, as long as the tick       *)
(* counter does not wrap between two toggles (2^29 ms).                    *)
(*                                                                         *)
(* Delivery of events.  In Spec, SpecTiming and SpecMapper the callback    *)
(* runs between two iterations of the loop, as in a cooperative loop: an   *)
(* iteration and the KeyboardInterrupt handler are one step each and pc    *)
(* stays at "loop".  ble.irq (main.py 205) hands the callback to the       *)
(* runtime, which runs it to completion between two bytecodes of the main  *)
(* program: SpecAsync takes the loop and the KeyboardInterrupt handler     *)
(* one statement at a time, pc naming the line to run next, with the       *)
(* callback running between any two of them.                               *)
(*                                                                         *)
(* gatts_notify raises OSError when the peer cannot be reached; the code   *)
(* catches it.  notify_results holds the results the call can have in a    *)
(* run: it always succeeds except in SpecNotify.                           *)
(*                                                                         *)
(* A write event carries the handles only; the handler reads the value of  *)
(* the characteristic when it runs (main.py 153).  Where a write is        *)
(* handled in the step that makes it (Write), the value read is the value  *)
(* written and char_value and pending are not used.  In SpecPending a      *)
(* write (PeerWrite) stores the value and queues the event, and the        *)
(* callback runs later (Deliver).                                          *)
(*                                                                         *)
(* Spec is the program with centrals that write the whole command          *)
(* vocabulary; SpecTiming is the program with centrals that only report    *)
(* a weak reading and start and stop monitoring, observed over the longer  *)
(* blink intervals.                                                        *)
(***************************************************************************)
EXTENDS Integers, Sequences, FiniteSets, TLC

\* ------------------------------------------------------------------ bounds

\* number of connection handles the transport hands out
MaxHandles == 2

\* number of write events that can wait for the callback
MaxPending == 2

\* the readings given to rssi_to_blink_interval go from ReadingsBelow under the
\* lowest threshold to ReadingsAbove over the highest
ReadingsBelow == 10
ReadingsAbove == 10

\* ------------------------------------------------------- program constants

\* time.sleep_ms(20) at the end of a loop iteration
SleepMs == 20

\* welcome_sequence: range(5) pulses of sleep(0.15) on and sleep(0.1) off
WelcomePulses == 5
WelcomeOnMs == 150
WelcomeOffMs == 100

\* current_rssi = -60
DefaultRssi == 0 - 60

\* the fall-through "return 1500" of rssi_to_blink_interval
SlowestInterval == 1500

\* event codes of the ble.irq callback
IRQ_CENTRAL_CONNECT == 1
IRQ_CENTRAL_DISCONNECT == 2
IRQ_GATTS_WRITE == 3

\* the value handle returned by gatts_register_services for the one characteristic
led_handle == 9

\* connection handles the transport hands out
Handles == 1..MaxHandles

\* peer addresses (addr bytes) of the centrals
Addrs == {<<170, 187, 204, 1, 2, 3>>}

\* --------------------------------------------------------------------- text

WhiteSpace == {" ", "\t", "\n", "\r"}
UpperChars == <<"A","B","C","D","E","F","G","H","I","J","K","L","M","N","O","P","Q","R","S","T","U","V","W","X","Y","Z">>
LowerChars == <<"a","b","c","d","e","f","g","h","i","j","k","l","m","n","o","p","q","r","s","t","u","v","w","x","y","z">>
DigitChars == <<"0","1","2","3","4","5","6","7","8","9">>
HexChars == <<"0","1","2","3","4","5","6","7","8","9","a","b","c","d","e","f">>

IndexOf(c, chars) == IF \E i \in 1..Len(chars) : chars[i] = c
                     THEN CHOOSE i \in 1..Len(chars) : chars[i] = c
                     ELSE 0

\* upper-case letter -> lower-case letter
LowerTable == [c \in {UpperChars[i] : i \in 1..Len(UpperChars)} |-> LowerChars[IndexOf(c, UpperChars)]]

\* str.lower() on one character
LowerChar(c) == IF c \in DOMAIN LowerTable THEN LowerTable[c] ELSE c

\* str.lower()
lower(s) == [i \in 1..Len(s) |-> LowerChar(s[i])]

RECURSIVE lstrip(_)
lstrip(s) == IF s # <<>> /\ Head(s) \in WhiteSpace THEN lstrip(Tail(s)) ELSE s

RECURSIVE rstrip(_)
rstrip(s) == IF s # <<>> /\ s[Len(s)] \in WhiteSpace THEN rstrip(SubSeq(s, 1, Len(s) - 1)) ELSE s

\* str.strip()
strip(s) == rstrip(lstrip(s))

\* str.startswith(p)
startswith(s, p) == Len(s) >= Len(p) /\ SubSeq(s, 1, Len(p)) = p

\* str.split(sep) for a one-character separator: the list of fields
RECURSIVE split(_, _)
split(s, sep) ==
    IF \E i \in 1..Len(s) : s[i] = sep
    THEN LET i == CHOOSE k \in 1..Len(s) : s[k] = sep /\ \A j \in 1..(k - 1) : s[j] # sep
         IN  <<SubSeq(s, 1, i - 1)>> \o split(SubSeq(s, i + 1, Len(s)), sep)
    ELSE <<s>>

RECURSIVE DigitsValue(_)
DigitsValue(s) == IF s = <<>> THEN 0
                  ELSE 10 * DigitsValue(SubSeq(s, 1, Len(s) - 1)) + (IndexOf(s[Len(s)], DigitChars) - 1)

IsDigits(s) == s # <<>> /\ \A i \in 1..Len(s) : IndexOf(s[i], DigitChars) > 0

\* int(text): surrounding whitespace is dropped, one optional sign, then decimal
\* digits; anything else raises ValueError (ok = FALSE)
int(text) ==
    LET t    == strip(text)
        neg  == t # <<>> /\ Head(t) = "-"
        sgn  == t # <<>> /\ Head(t) \in {"-", "+"}
        body == IF sgn THEN Tail(t) ELSE t
    IN  IF IsDigits(body)
        THEN [ok |-> TRUE, val |-> IF neg THEN 0 - DigitsValue(body) ELSE DigitsValue(body)]
        ELSE [ok |-> FALSE, val |-> 0]

RECURSIVE NatStr(_)
NatStr(n) == IF n < 10 THEN <<DigitChars[n + 1]>>
             ELSE NatStr(n \div 10) \o <<DigitChars[(n % 10) + 1]>>

\* the formatting of an int in an f-string
str(n) == IF n < 0 THEN <<"-">> \o NatStr(0 - n) ELSE NatStr(n)

\* '%02x' % b
Hex02(b) == <<HexChars[(b \div 16) + 1], HexChars[(b % 16) + 1]>>

RECURSIVE get_device_addr_string(_)
get_device_addr_string(addr_bytes) ==
    IF addr_bytes = <<>> THEN <<>>
    ELSE IF Len(addr_bytes) = 1 THEN Hex02(addr_bytes[1])
    ELSE Hex02(addr_bytes[1]) \o <<":">> \o get_device_addr_string(Tail(addr_bytes))

\* ------------------------------------------------------------ the vocabulary

T_1 == <<"1">>
T_0 == <<"0">>
T_on == <<"o","n">>
T_off == <<"o","f","f">>
T_toggle == <<"t","o","g","g","l","e">>
T_unlock == <<"u","n","l","o","c","k">>
T_lock == <<"l","o","c","k">>
T_start_rssi == <<"s","t","a","r","t","_","r","s","s","i">>
T_stop_rssi == <<"s","t","o","p","_","r","s","s","i">>
T_rssi_colon == <<"r","s","s","i",":">>
T_unlocked == <<"u","n","l","o","c","k","e","d">>
T_locked == <<"l","o","c","k","e","d">>
T_rssi_started == <<"r","s","s","i","_","s","t","a","r","t","e","d">>
T_rssi_stopped == <<"r","s","s","i","_","s","t","o","p","p","e","d">>
T_rssi_updated_colon == <<"r","s","s","i","_","u","p","d","a","t","e","d",":">>
T_rssi_error == <<"r","s","s","i","_","e","r","r","o","r">>
T_unknown == <<"u","n","k","n","o","w","n">>
T_connected == <<"c","o","n","n","e","c","t","e","d">>
T_ready == <<"r","e","a","d","y">>


\* the text "rssi:<n>"
RssiText(n) == T_rssi_colon \o str(n)

\* values the centrals write to the characteristic (raw text, before strip/lower):
\* the whole vocabulary, with a strong reading
CommandValues ==
    { T_1, <<" ","O","n","\n">>, T_0, T_off, T_toggle, T_unlock, T_lock, T_start_rssi,
      T_stop_rssi, <<"r","s","s","i",":","a","b","c">>, <<"d","a","n","c","e">>,
      RssiText(0 - 30), T_rssi_colon, RssiText(0 - 30) \o <<":","5">> }

\* values written by centrals that only drive the blink scheduler, with a weak reading
TimingValues == { T_start_rssi, T_stop_rssi, RssiText(0 - 72) }

\* ---------------------------------------------------- Signal-to-Rate Mapper

\* rssi_map
rssi_map == [t \in {0 - 30, 0 - 35, 0 - 40, 0 - 45, 0 - 50, 0 - 60, 0 - 70, 0 - 80, 0 - 90} |->
               CASE t = 0 - 30 -> 25
                 [] t = 0 - 35 -> 50
                 [] t = 0 - 40 -> 75
                 [] t = 0 - 45 -> 100
                 [] t = 0 - 50 -> 150
                 [] t = 0 - 60 -> 300
                 [] t = 0 - 70 -> 600
                 [] t = 0 - 80 -> 1000
                 [] t = 0 - 90 -> 1500]

\* sorted(S, reverse=True)
RECURSIVE SortedDesc(_)
SortedDesc(S) == IF S = {} THEN <<>>
                 ELSE LET m == CHOOSE x \in S : \A y \in S : y <= x
                      IN  <<m>> \o SortedDesc(S \ {m})

\* the for loop over the thresholds: the first one the reading reaches
RECURSIVE ScanThresholds(_, _)
ScanThresholds(rssi, thresholds) ==
    IF thresholds = <<>> THEN SlowestInterval
    ELSE IF rssi >= Head(thresholds) THEN rssi_map[Head(thresholds)]
    ELSE ScanThresholds(rssi, Tail(thresholds))

\* sorted(rssi_map.keys(), reverse=True)
sorted_thresholds == SortedDesc(DOMAIN rssi_map)

\* variant that scans the thresholds in ascending order
rssi_to_blink_interval_Ascending(rssi) ==
    ScanThresholds(rssi, [i \in 1..Len(sorted_thresholds) |->
                            sorted_thresholds[Len(sorted_thresholds) + 1 - i]])

rssi_to_blink_interval(rssi) == ScanThresholds(rssi, sorted_thresholds)

\* the readings rssi_to_blink_interval is applied to
ReadingRange == ((0 - 90) - ReadingsBelow)..((0 - 30) + ReadingsAbove)

\* value.decode('utf-8').strip().lower()
DecodeCommand(value) == lower(strip(value))

\* the readings that the writes of values can store in current_rssi
ReadingsOf(values) ==
    LET texts   == {DecodeCommand(v) : v \in values}
        reports == {c \in texts : startswith(c, T_rssi_colon)}
        parsed  == {int(split(c, ":")[2]) : c \in reports}
    IN  {p.val : p \in {q \in parsed : q.ok}}

\* the largest interval of a reading current_rssi can hold when the centrals
\* write values
MaxInterval(values) ==
    LET R == {rssi_to_blink_interval(r) : r \in ReadingsOf(values) \cup {DefaultRssi}}
    IN  CHOOSE m \in R : \A x \in R : x <= m

\* elapsed times are kept up to this value
ElapsedCap(values) == MaxInterval(values) + SleepMs

\* the time since last_blink_time_ms after a sleep of ms milliseconds
Elapse(since, ms, cap) == IF since + ms > cap THEN cap ELSE since + ms

\* -------------------------------------------------------------------- state

VARIABLES
    led,                 \* level of Pin("LED")
    relay_pin,           \* level of Pin(2)
    buzzer_pin,          \* level of Pin(3)
    connected_devices,   \* conn_handle -> [addr, name]
    rssi_blink_active,   \* monitoring flag
    current_rssi,        \* last signal reading
    since_blink_ms,      \* ticks_diff(time.ticks_ms(), last_blink_time_ms)
    running,             \* FALSE once the KeyboardInterrupt handler has run
    app_values,          \* the values the centrals of this run write (fixed)
    elapsed_cap,         \* ElapsedCap(app_values) (fixed)
    notify_results,      \* the results gatts_notify can have in this run (fixed):
                         \* TRUE sent, FALSE OSError
    notify_ok,           \* no gatts_notify call of the last step raised OSError
    char_value,          \* the value of the characteristic led_handle
    pending,             \* write events raised and not handled yet:
                         \* <<[conn_handle, value_handle, wrote]>>, wrote the value
                         \* the write carried (the event does not hold it)
    pc,                  \* the line the main program runs next ("loop": whole iterations)
    local,               \* the loop's current_time_ms and current_blink_interval_ms
    sent,                \* gatts_notify calls made by the last step: <<[to, data]>>
    ev,                  \* the last step: [kind, h, known, value]
    before,              \* LED level and monitoring flag the last step started from
    steady               \* since the last scheduler toggle: monitoring stayed on with a
                         \* connection, current_rssi kept its value, only the loop slept

vars == <<led, relay_pin, buzzer_pin, connected_devices, rssi_blink_active, current_rssi,
          since_blink_ms, running, app_values, elapsed_cap, notify_results, notify_ok,
          char_value, pending, pc, local, sent, ev, before, steady>>

\* the program state a handler reads and writes, as one record
Globals == [led |-> led, relay_pin |-> relay_pin, buzzer_pin |-> buzzer_pin,
            connected_devices |-> connected_devices,
            rssi_blink_active |-> rssi_blink_active, current_rssi |-> current_rssi,
            since_blink_ms |-> since_blink_ms, elapsed_cap |-> elapsed_cap, sent |-> <<>>,
            link_ok |-> TRUE, notify_ok |-> TRUE]

\* the program state for a handler during which gatts_notify has the result ok
GlobalsWhen(ok) == [Globals EXCEPT !.link_ok = ok]

Commit(g) ==
    /\ led' = g.led
    /\ relay_pin' = g.relay_pin
    /\ buzzer_pin' = g.buzzer_pin
    /\ connected_devices' = g.connected_devices
    /\ rssi_blink_active' = g.rssi_blink_active
    /\ current_rssi' = g.current_rssi
    /\ since_blink_ms' = g.since_blink_ms
    /\ sent' = g.sent
    /\ notify_ok' = g.notify_ok

\* --------------------------------------------------------------- operations

update_rssi(g, new_rssi) == [g EXCEPT !.current_rssi = new_rssi]

start_rssi_monitoring(g) == [g EXCEPT !.rssi_blink_active = TRUE]

\* variant of stop_rssi_monitoring that leaves the flag set
stop_rssi_monitoring_FlagKept(g) == [g EXCEPT !.led = FALSE]

\* variant of stop_rssi_monitoring without led.off()
stop_rssi_monitoring_LedKept(g) == [g EXCEPT !.rssi_blink_active = FALSE]

stop_rssi_monitoring(g) == [g EXCEPT !.rssi_blink_active = FALSE, !.led = FALSE]

\* variant of update_rssi_blink without led.toggle()
update_rssi_blink_NoToggle(g) == g

update_rssi_blink(g) == IF ~g.rssi_blink_active THEN g ELSE [g EXCEPT !.led = ~@]

\* one pulse of the welcome sequence: led.on(); sleep(0.15); led.off(); sleep(0.1)
WelcomePulse(g) ==
    [g EXCEPT !.led = FALSE,
              !.since_blink_ms = Elapse(Elapse(@, WelcomeOnMs, g.elapsed_cap), WelcomeOffMs, g.elapsed_cap)]

RECURSIVE WelcomeLoop(_, _)
WelcomeLoop(g, n) == IF n = 0 THEN g ELSE WelcomeLoop(WelcomePulse(g), n - 1)

welcome_sequence(g) == WelcomeLoop(g, WelcomePulses)

\* variant of the notification that is repeated once when it fails
gatts_notify_Retry(g, conn_handle, data) ==
    IF g.link_ok
    THEN [g EXCEPT !.sent = Append(@, [to |-> conn_handle, data |-> data])]
    ELSE [g EXCEPT !.sent = @ \o <<[to |-> conn_handle, data |-> data],
                                   [to |-> conn_handle, data |-> data]>>,
                   !.notify_ok = FALSE]

\* ble.gatts_notify(conn_handle, led_handle, data) inside try/except: pass
gatts_notify(g, conn_handle, data) ==
    [g EXCEPT !.sent = Append(@, [to |-> conn_handle, data |-> data]),
              !.notify_ok = @ /\ g.link_ok]

\* event == 1
OnConnect(g, conn_handle, addr) ==
    LET entry == [addr |-> get_device_addr_string(addr), name |-> "Phone"]
        g1 == [g EXCEPT !.connected_devices =
                 [h \in (DOMAIN g.connected_devices) \cup {conn_handle} |->
                    IF h = conn_handle THEN entry ELSE g.connected_devices[h]]]
    IN  gatts_notify(welcome_sequence(g1), conn_handle, T_connected)

\* variant of the disconnect branch that does not stop monitoring
OnDisconnect_NoStop(g, conn_handle) ==
    IF conn_handle \in DOMAIN g.connected_devices
    THEN [g EXCEPT !.connected_devices =
            [h \in (DOMAIN g.connected_devices) \ {conn_handle} |-> g.connected_devices[h]]]
    ELSE g

\* variant of the disconnect branch that stops monitoring only when the registry
\* becomes empty
OnDisconnect_StopWhenEmpty(g, conn_handle) ==
    IF conn_handle \in DOMAIN g.connected_devices
    THEN LET g1 == IF DOMAIN g.connected_devices = {conn_handle}
                   THEN stop_rssi_monitoring(g) ELSE g
         IN  [g1 EXCEPT !.connected_devices =
                [h \in (DOMAIN g.connected_devices) \ {conn_handle} |-> g.connected_devices[h]]]
    ELSE g

\* variant of the disconnect branch that also releases the relay
OnDisconnect_RelayOff(g, conn_handle) ==
    IF conn_handle \in DOMAIN g.connected_devices
    THEN LET g1 == [stop_rssi_monitoring(g) EXCEPT !.relay_pin = FALSE]
         IN  [g1 EXCEPT !.connected_devices =
                [h \in (DOMAIN g.connected_devices) \ {conn_handle} |-> g.connected_devices[h]]]
    ELSE g

\* variant of the disconnect branch that empties the registry
OnDisconnect_ClearAll(g, conn_handle) ==
    IF conn_handle \in DOMAIN g.connected_devices
    THEN [stop_rssi_monitoring(g) EXCEPT !.connected_devices = <<>>]
    ELSE g

\* event == 2
OnDisconnect(g, conn_handle) ==
    IF conn_handle \in DOMAIN g.connected_devices
    THEN LET g1 == stop_rssi_monitoring(g)
         IN  [g1 EXCEPT !.connected_devices =
                [h \in (DOMAIN g.connected_devices) \ {conn_handle} |-> g.connected_devices[h]]]
    ELSE g

\* the rssi:<payload> branch, with its try/except
RssiCommand(g, command) ==
    LET parsed == int(split(command, ":")[2])
    IN  IF parsed.ok
        THEN [g |-> update_rssi(g, parsed.val), status |-> T_rssi_updated_colon \o str(parsed.val)]
        ELSE [g |-> g, status |-> T_rssi_error]

\* variant of the if/elif chain whose last branch switches the LED on
Interpret_UnknownLights(g, command) ==
    IF command \in {T_1, T_on}
    THEN [g |-> [stop_rssi_monitoring(g) EXCEPT !.led = TRUE], status |-> T_on]
    ELSE IF command \in {T_0, T_off}
    THEN [g |-> [stop_rssi_monitoring(g) EXCEPT !.led = FALSE], status |-> T_off]
    ELSE IF command = T_toggle
    THEN LET g1 == [stop_rssi_monitoring(g) EXCEPT !.led = ~@]
         IN  [g |-> g1, status |-> IF g1.led THEN T_on ELSE T_off]
    ELSE IF command = T_unlock
    THEN [g |-> [g EXCEPT !.relay_pin = TRUE], status |-> T_unlocked]
    ELSE IF command = T_lock
    THEN [g |-> [g EXCEPT !.relay_pin = FALSE], status |-> T_locked]
    ELSE IF command = T_start_rssi
    THEN [g |-> start_rssi_monitoring(g), status |-> T_rssi_started]
    ELSE IF command = T_stop_rssi
    THEN [g |-> stop_rssi_monitoring(g), status |-> T_rssi_stopped]
    ELSE IF startswith(command, T_rssi_colon)
    THEN RssiCommand(g, command)
    ELSE [g |-> [g EXCEPT !.led = TRUE], status |-> T_unknown]

\* the if/elif chain over the command text
Interpret(g, command) ==
    IF command \in {T_1, T_on}
    THEN [g |-> [stop_rssi_monitoring(g) EXCEPT !.led = TRUE], status |-> T_on]
    ELSE IF command \in {T_0, T_off}
    THEN [g |-> [stop_rssi_monitoring(g) EXCEPT !.led = FALSE], status |-> T_off]
    ELSE IF command = T_toggle
    THEN LET g1 == [stop_rssi_monitoring(g) EXCEPT !.led = ~@]
         IN  [g |-> g1, status |-> IF g1.led THEN T_on ELSE T_off]
    ELSE IF command = T_unlock
    THEN [g |-> [g EXCEPT !.relay_pin = TRUE], status |-> T_unlocked]
    ELSE IF command = T_lock
    THEN [g |-> [g EXCEPT !.relay_pin = FALSE], status |-> T_locked]
    ELSE IF command = T_start_rssi
    THEN [g |-> start_rssi_monitoring(g), status |-> T_rssi_started]
    ELSE IF command = T_stop_rssi
    THEN [g |-> stop_rssi_monitoring(g), status |-> T_rssi_stopped]
    ELSE IF startswith(command, T_rssi_colon)
    THEN RssiCommand(g, command)
    ELSE [g |-> g, status |-> T_unknown]

\* variant of the write branch without the lookup of conn_handle
OnWrite_Unchecked(g, conn_handle, value_handle, value) ==
    IF value_handle # led_handle THEN g
    ELSE LET command == DecodeCommand(value)
             r == CHOOSE x \in {Interpret(g, c) : c \in {command}} : TRUE
         IN  gatts_notify(r.g, conn_handle, r.status)

\* event == 3; value is what ble.gatts_read(led_handle) returns
OnWrite(g, conn_handle, value_handle, value) ==
    IF conn_handle \notin DOMAIN g.connected_devices THEN g
    ELSE IF value_handle # led_handle THEN g
    ELSE LET command == DecodeCommand(value)
             r == CHOOSE x \in {Interpret(g, c) : c \in {command}} : TRUE
         IN  gatts_notify(r.g, conn_handle, r.status)

ble_handler(g, event, conn_handle, addr, value_handle, value) ==
    IF event = IRQ_CENTRAL_CONNECT THEN OnConnect(g, conn_handle, addr)
    ELSE IF event = IRQ_CENTRAL_DISCONNECT THEN OnDisconnect(g, conn_handle)
    ELSE IF event = IRQ_GATTS_WRITE THEN OnWrite(g, conn_handle, value_handle, value)
    ELSE g

\* variant of the loop's conditions with > for >=
BlinkDue_Strict(g) ==
    /\ g.rssi_blink_active /\ DOMAIN g.connected_devices # {}
    /\ g.since_blink_ms > rssi_to_blink_interval(g.current_rssi)

\* the two conditions of the main loop under which it calls update_rssi_blink
BlinkDue(g) ==
    /\ g.rssi_blink_active /\ DOMAIN g.connected_devices # {}
    /\ g.since_blink_ms >= rssi_to_blink_interval(g.current_rssi)

\* variant of the loop iteration that does not store current_time_ms
LoopIteration_NoStamp(g) ==
    LET g1 == IF BlinkDue(g) THEN update_rssi_blink(g) ELSE g
    IN  [g1 EXCEPT !.since_blink_ms = Elapse(@, SleepMs, g.elapsed_cap)]

\* one iteration of "while True": read the clock, run the scheduler, sleep
LoopIteration(g) ==
    LET g1 == IF BlinkDue(g)
              THEN [update_rssi_blink(g) EXCEPT !.since_blink_ms = 0]
              ELSE g
    IN  [g1 EXCEPT !.since_blink_ms = Elapse(@, SleepMs, g.elapsed_cap)]

\* except KeyboardInterrupt
OnKeyboardInterrupt(g) ==
    [stop_rssi_monitoring(g) EXCEPT !.led = FALSE, !.relay_pin = FALSE, !.buzzer_pin = FALSE]

\* ------------------------------------------------------------------ actions

\* the record of a step: what was handled, for which handle, whether that handle
\* was in connected_devices when the handler started, and the value it read
Event(kind, h, value) ==
    [kind |-> kind, h |-> h, known |-> h \in DOMAIN connected_devices, value |-> value]

Snapshot == [led |-> led, rssi_blink_active |-> rssi_blink_active]

\* the scheduler's state: Active or Idle
Active == rssi_blink_active /\ DOMAIN connected_devices # {}

\* steady after a handler that took sleep_ms milliseconds
SteadyAfterEvent(sleep_ms) ==
    steady' = (steady /\ Active' /\ current_rssi' = current_rssi /\ sleep_ms = 0)

\* current_blink_interval_ms = 400
DefaultInterval == 400

\* the loop's variables: since is ticks_diff(current_time_ms, last_blink_time_ms),
\* waited the time passed since current_time_ms was read, interval is
\* current_blink_interval_ms
NoLocals == [since |-> 0, waited |-> 0, interval |-> DefaultInterval]

\* the main program while a handler that takes sleep_ms milliseconds runs: it stays
\* where it is, and inside an iteration the clock moves on from current_time_ms
MainWaits(sleep_ms) ==
    /\ pc' = pc
    /\ local' = IF pc = "loop" THEN local
                ELSE [local EXCEPT !.waited = Elapse(@, sleep_ms, elapsed_cap)]

InitWith(values) ==
    /\ app_values = values
    /\ elapsed_cap = ElapsedCap(values)
    /\ led = FALSE
    /\ relay_pin = FALSE
    /\ buzzer_pin = FALSE
    /\ connected_devices = <<>>
    /\ rssi_blink_active = FALSE
    /\ current_rssi = DefaultRssi
    /\ since_blink_ms = 0
    /\ running = TRUE
    /\ local = NoLocals
    /\ char_value = T_ready
    /\ pending = <<>>
    /\ sent = <<>>
    /\ notify_ok = TRUE
    /\ ev = Event("init", 0, <<>>)
    /\ before = Snapshot
    /\ steady = FALSE

Init == InitWith(CommandValues) /\ pc = "loop" /\ notify_results = {TRUE}

InitTiming == InitWith(TimingValues) /\ pc = "loop" /\ notify_results = {TRUE}

Connect ==
    /\ running
    /\ \E h \in Handles, a \in Addrs, ok \in notify_results :
         /\ \E g \in {ble_handler(GlobalsWhen(ok), IRQ_CENTRAL_CONNECT, h, a, led_handle, <<>>)} : Commit(g)
         /\ ev' = Event("connect", h, <<>>)
    /\ before' = Snapshot
    /\ SteadyAfterEvent(WelcomePulses * (WelcomeOnMs + WelcomeOffMs))
    /\ MainWaits(WelcomePulses * (WelcomeOnMs + WelcomeOffMs))
    /\ UNCHANGED <<running, app_values, elapsed_cap, notify_results, char_value, pending>>

Disconnect ==
    /\ running
    /\ \E h \in Handles, a \in Addrs :
         /\ \E g \in {ble_handler(Globals, IRQ_CENTRAL_DISCONNECT, h, a, led_handle, <<>>)} : Commit(g)
         /\ ev' = Event("disconnect", h, <<>>)
    /\ before' = Snapshot
    /\ SteadyAfterEvent(0)
    /\ MainWaits(0)
    /\ UNCHANGED <<running, app_values, elapsed_cap, notify_results, char_value, pending>>

\* a central writes v to the characteristic and the write event is handled:
\* v is what ble.gatts_read(led_handle) returns to the handler
Write ==
    /\ running
    /\ \E h \in Handles, v \in app_values, ok \in notify_results :
         /\ \E g \in {ble_handler(GlobalsWhen(ok), IRQ_GATTS_WRITE, h, <<>>, led_handle, v)} : Commit(g)
         /\ ev' = Event("write", h, v)
    /\ before' = Snapshot
    /\ SteadyAfterEvent(0)
    /\ MainWaits(0)
    /\ UNCHANGED <<running, app_values, elapsed_cap, notify_results, char_value, pending>>

Tick ==
    /\ running /\ pc = "loop"
    /\ \E g \in {LoopIteration(Globals)} : Commit(g)
    /\ ev' = Event("tick", 0, <<>>)
    /\ before' = Snapshot
    /\ steady' = (BlinkDue(Globals) \/ steady)
    /\ UNCHANGED <<running, app_values, elapsed_cap, notify_results, char_value, pending, pc,
                   local>>

Shutdown ==
    /\ running /\ pc = "loop"
    /\ \E g \in {OnKeyboardInterrupt(Globals)} : Commit(g)
    /\ running' = FALSE
    /\ UNCHANGED <<app_values, elapsed_cap, notify_results, char_value, pending, pc, local>>
    /\ ev' = Event("shutdown", 0, <<>>)
    /\ before' = Snapshot
    /\ SteadyAfterEvent(0)

Next == Connect \/ Disconnect \/ Write \/ Tick \/ Shutdown

Spec == Init /\ [][Next]_vars

SpecTiming == InitTiming /\ [][Next]_vars

\* "while True": the loop goes on to its next iteration as long as it is not
\* interrupted
LoopRuns == WF_vars(Tick)

SpecLive == InitTiming /\ [][Next]_vars /\ LoopRuns

\* the program with one central connected, monitoring started and any reading of
\* ReadingRange stored by a "rssi:<int>" command
InitMapper ==
    /\ app_values = {}
    /\ elapsed_cap = SlowestInterval + SleepMs
    /\ led = FALSE
    /\ relay_pin = FALSE
    /\ buzzer_pin = FALSE
    /\ connected_devices = [h \in {1} |-> [addr |-> get_device_addr_string(CHOOSE a \in Addrs : TRUE),
                                            name |-> "Phone"]]
    /\ rssi_blink_active = TRUE
    /\ current_rssi \in ReadingRange
    /\ since_blink_ms = 0
    /\ running = TRUE
    /\ pc = "loop"
    /\ local = NoLocals
    /\ notify_results = {TRUE}
    /\ notify_ok = TRUE
    /\ char_value = T_ready
    /\ pending = <<>>
    /\ sent = <<>>
    /\ ev = Event("init", 0, <<>>)
    /\ before = Snapshot
    /\ steady = FALSE

\* the main loop alone: each iteration applies rssi_to_blink_interval to the reading
NextMapper == Tick

SpecMapper == InitMapper /\ [][NextMapper]_vars

\* ------------------------------------------------- notifications that fail

\* values written by the centrals of SpecNotify: one for each way a command
\* changes the state before the notification
NotifyValues ==
    { T_1, T_0, T_toggle, T_unlock, T_start_rssi, RssiText(0 - 30), <<"d","a","n","c","e">> }

InitNotify == InitWith(NotifyValues) /\ pc = "loop" /\ notify_results = BOOLEAN

SpecNotify == InitNotify /\ [][Next]_vars

\* ------------------------------------------------ writes that wait for the
\* ------------------------------------------------ callback

\* values written by the centrals of SpecPending
PendingValues == { T_1, T_unlock }

\* a registered central writes v: the transport stores v in the characteristic and
\* raises the write event, which waits for the callback
PeerWrite ==
    /\ running /\ Len(pending) < MaxPending
    /\ \E h \in DOMAIN connected_devices, v \in app_values :
         /\ char_value' = v
         /\ pending' = Append(pending, [conn_handle |-> h, value_handle |-> led_handle, wrote |-> v])
         /\ ev' = Event("peer_write", h, v)
    /\ sent' = <<>>
    /\ notify_ok' = TRUE
    /\ before' = Snapshot
    /\ UNCHANGED <<led, relay_pin, buzzer_pin, connected_devices, rssi_blink_active, current_rssi,
                   since_blink_ms, running, app_values, elapsed_cap, notify_results, pc, local,
                   steady>>

\* the callback runs for the oldest write event: ble.gatts_read(led_handle) returns
\* the value the characteristic has now
Deliver ==
    /\ running /\ pending # <<>>
    /\ \E ok \in notify_results :
         \E g \in {ble_handler(GlobalsWhen(ok), IRQ_GATTS_WRITE, Head(pending).conn_handle, <<>>,
                               Head(pending).value_handle, char_value)} : Commit(g)
    /\ ev' = Event("write", Head(pending).conn_handle, char_value)
    /\ pending' = Tail(pending)
    /\ before' = Snapshot
    /\ SteadyAfterEvent(0)
    /\ MainWaits(0)
    /\ UNCHANGED <<running, app_values, elapsed_cap, notify_results, char_value>>

InitPending == InitWith(PendingValues) /\ pc = "loop" /\ notify_results = {TRUE}

NextPending == Connect \/ Disconnect \/ PeerWrite \/ Deliver \/ Tick \/ Shutdown

SpecPending == InitPending /\ [][NextPending]_vars

\* ------------------------------------------- the main program by statements

\* values written by the centrals of SpecAsync
AsyncValues == { T_start_rssi, T_1, T_unlock }

\* the lines of the loop and of the KeyboardInterrupt handler
LoopLines == {"L256", "L259", "L261", "L264", "L80", "L83", "L266", "L275"}
ShutdownLines == {"L279", "L280", "L281", "L282", "L283"}

\* a step of the main program: only the variables named by the step change
MainStep(kind, next) ==
    /\ pc' = next
    /\ sent' = <<>>
    /\ notify_ok' = TRUE
    /\ ev' = Event(kind, 0, <<>>)
    /\ before' = Snapshot
    /\ UNCHANGED <<connected_devices, current_rssi, app_values, elapsed_cap, notify_results,
                   char_value, pending>>

\* current_time_ms = time.ticks_ms()
ReadClock ==
    /\ pc = "L256"
    /\ local' = [local EXCEPT !.since = since_blink_ms, !.waited = 0]
    /\ MainStep("loop", "L259")
    /\ UNCHANGED <<led, relay_pin, buzzer_pin, rssi_blink_active, since_blink_ms, running, steady>>

\* if rssi_blink_active and connected_devices:
CheckActive ==
    /\ pc = "L259"
    /\ MainStep("loop", IF rssi_blink_active /\ DOMAIN connected_devices # {} THEN "L261" ELSE "L275")
    /\ UNCHANGED <<led, relay_pin, buzzer_pin, rssi_blink_active, since_blink_ms, running, local,
                   steady>>

\* current_blink_interval_ms = rssi_to_blink_interval(current_rssi)
ComputeInterval ==
    /\ pc = "L261"
    /\ local' = [local EXCEPT !.interval = rssi_to_blink_interval(current_rssi)]
    /\ MainStep("loop", "L264")
    /\ UNCHANGED <<led, relay_pin, buzzer_pin, rssi_blink_active, since_blink_ms, running, steady>>

\* if time.ticks_diff(current_time_ms, last_blink_time_ms) >= current_blink_interval_ms:
CheckDue ==
    /\ pc = "L264"
    /\ MainStep("loop", IF local.since >= local.interval THEN "L80" ELSE "L275")
    /\ UNCHANGED <<led, relay_pin, buzzer_pin, rssi_blink_active, since_blink_ms, running, local,
                   steady>>

\* update_rssi_blink: if not rssi_blink_active: return 400
RecheckFlag ==
    /\ pc = "L80"
    /\ MainStep("loop", IF ~rssi_blink_active THEN "L266" ELSE "L83")
    /\ UNCHANGED <<led, relay_pin, buzzer_pin, rssi_blink_active, since_blink_ms, running, local,
                   steady>>

\* update_rssi_blink: interval_ms = ...; led.toggle(); return interval_ms
ToggleLed ==
    /\ pc = "L83"
    /\ led' = ~led
    /\ steady' = TRUE
    /\ MainStep("loop", "L266")
    /\ UNCHANGED <<relay_pin, buzzer_pin, rssi_blink_active, since_blink_ms, running, local>>

\* last_blink_time_ms = current_time_ms
StampTime ==
    /\ pc = "L266"
    /\ since_blink_ms' = local.waited
    /\ MainStep("loop", "L275")
    /\ UNCHANGED <<led, relay_pin, buzzer_pin, rssi_blink_active, running, local, steady>>

\* time.sleep_ms(20); current_time_ms is not read again before it is assigned
Sleep ==
    /\ pc = "L275"
    /\ since_blink_ms' = Elapse(since_blink_ms, SleepMs, elapsed_cap)
    /\ local' = [local EXCEPT !.since = 0, !.waited = 0]
    /\ MainStep("loop", "L256")
    /\ UNCHANGED <<led, relay_pin, buzzer_pin, rssi_blink_active, running, steady>>

\* KeyboardInterrupt raised at a line of the loop
Interrupt ==
    /\ pc \in LoopLines
    /\ local' = [local EXCEPT !.since = 0, !.waited = 0]
    /\ steady' = FALSE
    /\ MainStep("interrupt", "L279")
    /\ UNCHANGED <<led, relay_pin, buzzer_pin, rssi_blink_active, since_blink_ms, running>>

\* stop_rssi_monitoring()
ShutdownStopMonitoring ==
    /\ pc = "L279"
    /\ rssi_blink_active' = FALSE /\ led' = FALSE
    /\ MainStep("shutdown", "L280")
    /\ UNCHANGED <<relay_pin, buzzer_pin, since_blink_ms, running, local, steady>>

\* led.off()
ShutdownLedOff ==
    /\ pc = "L280"
    /\ led' = FALSE
    /\ MainStep("shutdown", "L281")
    /\ UNCHANGED <<relay_pin, buzzer_pin, rssi_blink_active, since_blink_ms, running, local, steady>>

\* relay_pin.off()
ShutdownRelayOff ==
    /\ pc = "L281"
    /\ relay_pin' = FALSE
    /\ MainStep("shutdown", "L282")
    /\ UNCHANGED <<led, buzzer_pin, rssi_blink_active, since_blink_ms, running, local, steady>>

\* buzzer_pin.off()
ShutdownBuzzerOff ==
    /\ pc = "L282"
    /\ buzzer_pin' = FALSE
    /\ MainStep("shutdown", "L283")
    /\ UNCHANGED <<led, relay_pin, rssi_blink_active, since_blink_ms, running, local, steady>>

\* ble.active(False): no event is delivered any more
ShutdownBleOff ==
    /\ pc = "L283"
    /\ running' = FALSE
    /\ MainStep("shutdown", "done")
    /\ UNCHANGED <<led, relay_pin, buzzer_pin, rssi_blink_active, since_blink_ms, local, steady>>

InitAsync == InitWith(AsyncValues) /\ pc = "L256" /\ notify_results = {TRUE}

NextAsync ==
    \/ Connect \/ Disconnect \/ Write
    \/ ReadClock \/ CheckActive \/ ComputeInterval \/ CheckDue
    \/ RecheckFlag \/ ToggleLed \/ StampTime \/ Sleep
    \/ Interrupt
    \/ ShutdownStopMonitoring \/ ShutdownLedOff \/ ShutdownRelayOff \/ ShutdownBuzzerOff
    \/ ShutdownBleOff

SpecAsync == InitAsync /\ [][NextAsync]_vars

\* ------------------------------------------------------------- vocabulary of
\* ------------------------------------------------------------- the properties

\* the handles in the connection registry
Registry == DOMAIN connected_devices

\* the last step handled a write from a registered handle whose command text
\* (trimmed, lower-cased) is one of texts
Handled(texts) == ev.kind = "write" /\ ev.known /\ DecodeCommand(ev.value) \in texts

\* the last step made exactly one notification: token, to the handle of the event
Replied(token) == sent = <<[to |-> ev.h, data |-> token]>>

\* the commands that set the LED level
OnTexts == {T_1, T_on}
OffTexts == {T_0, T_off}
LedTexts == OnTexts \cup OffTexts \cup {T_toggle}

\* ------------------------------------------------------------------------ C1

\* C1: a "toggle" command from a registered handle leaves the LED at the negation
\* of the level it had before the command, monitoring disabled, and answers "on"
\* if the new level is on and "off" otherwise.
C1_ToggleNegates ==
    Handled({T_toggle}) =>
        /\ led = ~before.led
        /\ ~rssi_blink_active
        /\ Replied(IF led THEN T_on ELSE T_off)

\* ------------------------------------------------------------------------ C2

\* C2: a direct LED command from a registered handle leaves monitoring disabled;
\* "1"/"on" leaves the LED on and answers "on", "0"/"off" leaves it off and
\* answers "off", whatever the LED level, the scheduler state and the reading were.
C2_DirectLedCommand ==
    /\ Handled(OnTexts) => (~rssi_blink_active /\ led /\ Replied(T_on))
    /\ Handled(OffTexts) => (~rssi_blink_active /\ ~led /\ Replied(T_off))

\* "1" handled while the scheduler was Active with the LED off and a reported reading
C2_Witness ==
    /\ Handled({T_1}) /\ before.rssi_blink_active /\ ~before.led
    /\ current_rssi # DefaultRssi
    /\ led /\ ~rssi_blink_active /\ Replied(T_on)

\* ------------------------------------------------------------------------ C3

\* C3: whenever the connection registry is empty, monitoring is disabled.
C3_EmptyRegistryIdle == (Registry = {}) => ~rssi_blink_active

\* the last connection went away while monitoring was enabled
C3_Witness ==
    /\ ev.kind = "disconnect" /\ ev.known /\ before.rssi_blink_active
    /\ Registry = {} /\ ~rssi_blink_active

\* ------------------------------------------------------------------------ C4

\* C4: the disconnect of the only registered handle while the scheduler is Active
\* leaves monitoring disabled and the LED off, whatever the LED level was; and with
\* the registry empty, monitoring disabled and the LED off, every step that is not
\* a connect or a command (a tick, a further disconnect) leaves them so.
C4_LastDisconnect ==
    [][ /\ (ev'.kind = "disconnect" /\ ev'.known /\ Active /\ Registry' = {})
            => (~rssi_blink_active' /\ ~led')
        /\ (Registry = {} /\ ~rssi_blink_active /\ ~led /\ ev'.kind \in {"tick", "disconnect"})
            => (~rssi_blink_active' /\ ~led' /\ Registry' = {}) ]_vars

\* the only handle disconnected while Active and the LED was on
C4_Witness ==
    /\ ev.kind = "disconnect" /\ ev.known /\ before.rssi_blink_active /\ before.led
    /\ Registry = {} /\ ~rssi_blink_active /\ ~led

\* a tick after that disconnect
C4_WitnessTick ==
    /\ ev.kind = "tick" /\ Registry = {} /\ ~rssi_blink_active /\ ~led /\ current_rssi # DefaultRssi

\* ------------------------------------------------------------------------ C5

\* the steps of C5
StartStep == ev'.kind = "write" /\ ev'.known /\ DecodeCommand(ev'.value) = T_start_rssi
StopCommandStep ==
    ev'.kind = "write" /\ ev'.known /\ DecodeCommand(ev'.value) \in LedTexts \cup {T_stop_rssi}
ShutdownStep == ev'.kind = "shutdown"

\* C5 as claimed: monitoring goes from off to on only by "start_rssi" from a
\* registered handle, and from on to off only by "stop_rssi", a direct LED command,
\* a disconnect that empties the registry, or shutdown (so the disconnect of one of
\* two handles leaves the scheduler Active).
C5_OnlyListedTransitions ==
    [][ /\ (~rssi_blink_active /\ rssi_blink_active') => StartStep
        /\ (rssi_blink_active /\ ~rssi_blink_active') =>
              \/ StopCommandStep
              \/ (ev'.kind = "disconnect" /\ Registry' = {})
              \/ ShutdownStep ]_vars

\* C5 amended: monitoring goes from off to on only by "start_rssi" from a
\* registered handle, and from on to off only by "stop_rssi", a direct LED command,
\* the disconnect of a registered handle (whether or not it empties the registry),
\* or shutdown; every disconnect of a registered handle leaves monitoring disabled.
C5_TransitionsAnyDisconnect ==
    [][ /\ (~rssi_blink_active /\ rssi_blink_active') => StartStep
        /\ (rssi_blink_active /\ ~rssi_blink_active') =>
              \/ StopCommandStep
              \/ (ev'.kind = "disconnect" /\ ev'.known)
              \/ ShutdownStep
        /\ (ev'.kind = "disconnect" /\ ev'.known) => ~rssi_blink_active' ]_vars

\* one of several handles disconnected while monitoring was enabled
C5_Witness ==
    /\ ev.kind = "disconnect" /\ ev.known /\ before.rssi_blink_active
    /\ Registry # {} /\ ~rssi_blink_active

\* ------------------------------------------------------------------------ C6

\* C6: a write whose handle is not in the registry sends no notification and
\* leaves LED, relay, monitoring flag, reading and registry as they were, whatever
\* the text; "start_rssi" from a registered handle makes the scheduler Active.
C6_UnknownHandleDropped ==
    [][ /\ (ev'.kind = "write" /\ ~ev'.known) =>
              /\ sent' = <<>>
              /\ UNCHANGED <<led, relay_pin, rssi_blink_active, current_rssi, connected_devices>>
        /\ StartStep => Active' ]_vars

\* "start_rssi" arrived with no connection at all and was dropped
C6_Witness ==
    /\ ev.kind = "write" /\ ~ev.known /\ DecodeCommand(ev.value) = T_start_rssi
    /\ Registry = {} /\ ~rssi_blink_active /\ sent = <<>>

\* a command of a handle that has disconnected arrived while another handle had
\* the scheduler Active
C6_WitnessStale ==
    /\ ev.kind = "write" /\ ~ev.known /\ DecodeCommand(ev.value) \in OffTexts
    /\ rssi_blink_active /\ Registry # {} /\ led /\ sent = <<>>

\* ------------------------------------------------------------------------ C7

\* C7: the LED level is changed only by a step that handles an explicit LED command
\* ("1"/"on", "0"/"off", "toggle", "stop_rssi") of a registered handle, by a tick
\* taken while Active, by a disconnect or by shutdown; every other step (a connect,
\* "start_rssi", "rssi:<int>", "lock", "unlock", an unknown command, an Idle tick)
\* leaves it as it was.
C7_LedOwnership ==
    [][ (led' # led) =>
           \/ StopCommandStep
           \/ (ev'.kind = "tick" /\ Active)
           \/ ev'.kind = "disconnect"
           \/ ShutdownStep ]_vars

\* ------------------------------------------------------------------------ C8

\* C8: the relay is changed only by "unlock" (relay on, answer "unlocked") and
\* "lock" (relay off, answer "locked") of a registered handle and by shutdown;
\* connects, disconnects, the other commands and ticks leave it as it was.
C8_RelayOwnership ==
    [][ /\ (relay_pin' # relay_pin) =>
              \/ (ev'.kind = "write" /\ ev'.known /\ DecodeCommand(ev'.value) \in {T_unlock, T_lock})
              \/ ShutdownStep
        /\ (ev'.kind = "write" /\ ev'.known /\ DecodeCommand(ev'.value) = T_unlock) =>
              (relay_pin' /\ sent' = <<[to |-> ev'.h, data |-> T_unlocked]>>)
        /\ (ev'.kind = "write" /\ ev'.known /\ DecodeCommand(ev'.value) = T_lock) =>
              (~relay_pin' /\ sent' = <<[to |-> ev'.h, data |-> T_locked]>>) ]_vars

\* the last connection went away and the relay is still engaged
C8_Witness == ev.kind = "disconnect" /\ ev.known /\ Registry = {} /\ relay_pin

\* ------------------------------------------------------------------------ C9

\* C9: a tick toggles the LED once and stores the current time as the time of the
\* last blink (so that one loop sleep later SleepMs have passed since) if and
\* only if monitoring is enabled, the registry is not empty and the time since the
\* last blink has reached the interval of the current reading; otherwise it leaves
\* the LED and the stored time alone.  No tick changes the relay, the monitoring
\* flag, the reading or the registry.
C9_Tick ==
    [][ (ev'.kind = "tick") =>
           /\ IF /\ rssi_blink_active /\ Registry # {}
                 /\ since_blink_ms >= rssi_to_blink_interval(current_rssi)
              THEN led' = ~led /\ since_blink_ms' = SleepMs
              ELSE led' = led /\ since_blink_ms' = Elapse(since_blink_ms, SleepMs, elapsed_cap)
           /\ UNCHANGED <<relay_pin, rssi_blink_active, current_rssi, connected_devices>> ]_vars

\* a tick has just toggled the LED
C9_Witness ==
    /\ ev.kind = "tick" /\ Active /\ led # before.led /\ since_blink_ms = SleepMs

\* a tick taken while Active before the interval had passed
C9_WitnessNotDue ==
    /\ ev.kind = "tick" /\ Active /\ led = before.led /\ steady
    /\ since_blink_ms > SleepMs /\ since_blink_ms < rssi_to_blink_interval(current_rssi)

\* ----------------------------------------------------------------------- C10

\* a tick that toggles the LED, taken when the scheduler has stayed Active with the
\* same reading and only loop sleeps have passed since the last scheduler toggle
SteadyToggleStep == ev'.kind = "tick" /\ led' # led /\ steady

\* C10 as claimed: two consecutive scheduler toggles with a constant reading r are
\* at least Mapper(r) and less than Mapper(r) + SleepMs apart; after "rssi:-72"
\* they are 600 ms apart within one polling step.
C10_Spacing600 ==
    [][ SteadyToggleStep =>
           /\ since_blink_ms >= rssi_to_blink_interval(current_rssi)
           /\ since_blink_ms < rssi_to_blink_interval(current_rssi) + SleepMs
           /\ (current_rssi = 0 - 72) =>
                 (since_blink_ms >= 600 /\ since_blink_ms < 600 + SleepMs) ]_vars

\* C10 amended: two consecutive scheduler toggles with a constant reading r are at
\* least Mapper(r) and less than Mapper(r) + SleepMs apart; after "rssi:-72" they
\* are 1000 ms apart within one polling step (-72 is below the -70 threshold, so
\* its interval is that of -80).
C10_ToggleSpacing ==
    [][ SteadyToggleStep =>
           /\ since_blink_ms >= rssi_to_blink_interval(current_rssi)
           /\ since_blink_ms < rssi_to_blink_interval(current_rssi) + SleepMs
           /\ (current_rssi = 0 - 72) =>
                 (since_blink_ms >= 1000 /\ since_blink_ms < 1000 + SleepMs) ]_vars

\* with the reading -72, 1000 ms of loop sleeps after a scheduler toggle: the next
\* tick is the next toggle
C10_Witness ==
    /\ steady /\ Active /\ ev.kind = "tick"
    /\ current_rssi = 0 - 72 /\ since_blink_ms = 1000

\* ----------------------------------------------------------------------- C11

\* the table of C11
C11_Table ==
    [t \in {0 - 30, 0 - 35, 0 - 40, 0 - 45, 0 - 50, 0 - 60, 0 - 70, 0 - 80, 0 - 90} |->
       CASE t = 0 - 30 -> 25   [] t = 0 - 35 -> 50   [] t = 0 - 40 -> 75
         [] t = 0 - 45 -> 100  [] t = 0 - 50 -> 150  [] t = 0 - 60 -> 300
         [] t = 0 - 70 -> 600  [] t = 0 - 80 -> 1000 [] t = 0 - 90 -> 1500]

\* the period of the highest threshold of the table that is <= r, 1500 below all
C11_Period(r) ==
    LET reached == {t \in DOMAIN C11_Table : t <= r}
    IN  IF reached = {} THEN 1500
        ELSE C11_Table[CHOOSE t \in reached : \A u \in reached : u <= t]

\* C11: for the reading r the loop maps, rssi_to_blink_interval(r) is the period of
\* the highest threshold of the table that is <= r, and 1500 when r < -90; it is
\* positive, and not larger than the interval of any weaker reading of the range.
C11_MapperTable ==
    /\ rssi_to_blink_interval(current_rssi) = C11_Period(current_rssi)
    /\ (current_rssi < 0 - 90) => rssi_to_blink_interval(current_rssi) = 1500
    /\ rssi_to_blink_interval(current_rssi) > 0
    /\ \A r \in ReadingRange :
          (r <= current_rssi) => rssi_to_blink_interval(r) >= rssi_to_blink_interval(current_rssi)

\* the scheduler has toggled the LED with a reading below every threshold, 1500 ms
\* after the loop started
C11_Witness ==
    /\ ev.kind = "tick" /\ led # before.led /\ current_rssi < 0 - 90
    /\ since_blink_ms = SleepMs /\ steady

\* the scheduler has toggled the LED with a reading above every threshold
C11_WitnessStrong ==
    /\ ev.kind = "tick" /\ led # before.led /\ current_rssi > 0 - 30
    /\ since_blink_ms = SleepMs /\ steady

\* ----------------------------------------------------------------------- C12

\* the last step / this step handled a "rssi:<payload>" command of a registered handle
RssiHandled == ev.kind = "write" /\ ev.known /\ startswith(DecodeCommand(ev.value), T_rssi_colon)
RssiStep == ev'.kind = "write" /\ ev'.known /\ startswith(DecodeCommand(ev'.value), T_rssi_colon)

\* the payload of a "rssi:<payload>" command: the text after "rssi:"
Payload(command) == SubSeq(command, Len(T_rssi_colon) + 1, Len(command))

\* C12: a command "rssi:<payload>" from a registered handle: if the payload parses
\* as an integer n the reading becomes n and the answer is "rssi_updated:n"; if it
\* does not, the reading keeps its value and the answer is "rssi_error".  LED,
\* relay, monitoring flag and registry are unchanged, and a tick taken while Active
\* right after the command toggles exactly when the interval of the reading the
\* command left has passed.
C12_RssiPayload ==
    [][ /\ RssiStep =>
              /\ LET n == int(Payload(DecodeCommand(ev'.value)))
                 IN  IF n.ok
                     THEN /\ current_rssi' = n.val
                          /\ sent' = <<[to |-> ev'.h, data |-> T_rssi_updated_colon \o str(n.val)]>>
                     ELSE /\ current_rssi' = current_rssi
                          /\ sent' = <<[to |-> ev'.h, data |-> T_rssi_error]>>
              /\ UNCHANGED <<led, relay_pin, rssi_blink_active, connected_devices>>
        /\ (RssiHandled /\ Active /\ ev'.kind = "tick") =>
              ((led' # led) <=> (since_blink_ms >= rssi_to_blink_interval(current_rssi))) ]_vars

\* what the code does with "rssi:<payload>": the same with the payload cut at its
\* first ":" (the field command.split(':')[1])
C12_RssiFirstField ==
    [][ /\ RssiStep =>
              /\ LET n == int(split(Payload(DecodeCommand(ev'.value)), ":")[1])
                 IN  IF n.ok
                     THEN /\ current_rssi' = n.val
                          /\ sent' = <<[to |-> ev'.h, data |-> T_rssi_updated_colon \o str(n.val)]>>
                     ELSE /\ current_rssi' = current_rssi
                          /\ sent' = <<[to |-> ev'.h, data |-> T_rssi_error]>>
              /\ UNCHANGED <<led, relay_pin, rssi_blink_active, connected_devices>>
        /\ (RssiHandled /\ Active /\ ev'.kind = "tick") =>
              ((led' # led) <=> (since_blink_ms >= rssi_to_blink_interval(current_rssi))) ]_vars

\* "rssi:-30:5" has stored the reading -30 and was answered "rssi_updated:-30"
C12_WitnessSecondColon ==
    /\ RssiHandled /\ ~int(Payload(DecodeCommand(ev.value))).ok
    /\ current_rssi = 0 - 30 /\ Replied(T_rssi_updated_colon \o str(0 - 30))

\* "rssi:" with an empty payload was answered "rssi_error" while Active with a
\* reported reading
C12_WitnessEmpty ==
    /\ RssiHandled /\ Payload(DecodeCommand(ev.value)) = <<>> /\ Active
    /\ current_rssi = 0 - 30 /\ Replied(T_rssi_error)

\* ----------------------------------------------------------------------- C13

\* the command texts with a branch of their own
KnownTexts == LedTexts \cup {T_unlock, T_lock, T_start_rssi, T_stop_rssi}

\* this step handled a command of a registered handle that is none of the known
\* texts and does not start with "rssi:"
UnknownStep ==
    /\ ev'.kind = "write" /\ ev'.known
    /\ DecodeCommand(ev'.value) \notin KnownTexts
    /\ ~startswith(DecodeCommand(ev'.value), T_rssi_colon)

\* C13: a command of a registered handle that is none of 1, on, 0, off, toggle,
\* unlock, lock, start_rssi, stop_rssi and does not start with "rssi:" is answered
\* "unknown" and leaves LED, relay, monitoring flag, reading, the time of the last
\* blink and the registry as they were.
C13_UnknownCommand ==
    [][ UnknownStep =>
           /\ sent' = <<[to |-> ev'.h, data |-> T_unknown]>>
           /\ UNCHANGED <<led, relay_pin, rssi_blink_active, current_rssi, since_blink_ms,
                          connected_devices>> ]_vars

\* "dance" was handled while the scheduler was Active with the LED off and the
\* relay engaged
C13_Witness ==
    /\ Handled({<<"d","a","n","c","e">>}) /\ Replied(T_unknown)
    /\ Active /\ before.rssi_blink_active /\ ~led /\ relay_pin /\ since_blink_ms > 0

\* ----------------------------------------------------------------------- C14

\* C14: once the KeyboardInterrupt handler has run, the LED, the relay and the
\* buzzer are off and monitoring is disabled, whatever state the loop was
\* interrupted in; and once the handler has driven the outputs (from line 283 on)
\* no step, the handling of an event included, changes any of them.
C14_ShutdownSafe ==
    /\ [](pc = "done" => (~led /\ ~relay_pin /\ ~buzzer_pin /\ ~rssi_blink_active))
    /\ [][ (pc \in {"L283", "done"}) =>
              UNCHANGED <<led, relay_pin, buzzer_pin, rssi_blink_active>> ]_vars

\* the KeyboardInterrupt handler has finished and the relay is engaged
C14_WitnessRelayLeftOn == pc = "done" /\ ~running /\ relay_pin

\* the KeyboardInterrupt handler has finished and the LED is on
C14_WitnessLedLeftOn == pc = "done" /\ ~running /\ led

\* the KeyboardInterrupt handler has finished and monitoring is enabled
C14_WitnessMonitoringLeftOn == pc = "done" /\ ~running /\ rssi_blink_active

\* ----------------------------------------------------------------------- C17

\* C17: with the callback running between any two statements of the loop, the
\* loop's led.toggle() runs only in a state where monitoring is enabled and the
\* registry is not empty, and no statement of the loop changes the LED while
\* monitoring is disabled or the registry is empty: the LED keeps the level an
\* "on"/"off"/"stop_rssi" command or a disconnect has set until the next event.
C17_CommandWins ==
    [][ /\ (pc = "L83" /\ pc' = "L266") => (rssi_blink_active /\ Registry # {})
        /\ (ev'.kind = "loop" /\ ~(rssi_blink_active /\ Registry # {})) => led' = led ]_vars

\* the loop has switched off the LED that the command "1" had just switched on,
\* with monitoring disabled
C17_WitnessLateToggle ==
    /\ pc = "L266" /\ ev.kind = "loop" /\ before.led /\ ~led
    /\ ~before.rssi_blink_active /\ ~rssi_blink_active /\ Registry # {}

\* the loop has switched on the LED after the last central disconnected
C17_WitnessAfterDisconnect ==
    /\ pc = "L266" /\ ev.kind = "loop" /\ ~before.led /\ led
    /\ ~rssi_blink_active /\ Registry = {}

\* ----------------------------------------------------------------------- C15

\* C15: a command handled for a registered handle h makes exactly one
\* notification attempt, to h, with the response token of the command; when the
\* attempt fails the LED, the relay, the monitoring flag, the reading and the
\* registry are what the handler leaves when it succeeds, and the loop is still
\* running.
C15_NotifyOnce ==
    [][ (ev'.kind = "write" /\ ev'.known) =>
           \E g \in {ble_handler(GlobalsWhen(TRUE), IRQ_GATTS_WRITE, ev'.h, <<>>, led_handle, ev'.value)} :
              /\ sent' = <<[to |-> ev'.h, data |-> g.sent[1].data]>>
              /\ Len(g.sent) = 1
              /\ led' = g.led
              /\ relay_pin' = g.relay_pin
              /\ rssi_blink_active' = g.rssi_blink_active
              /\ current_rssi' = g.current_rssi
              /\ connected_devices' = g.connected_devices
              /\ running' /\ pc' = "loop" ]_vars

\* the notification of "unlocked" failed: the relay is engaged and the loop runs
C15_Witness ==
    /\ Handled({T_unlock}) /\ ~notify_ok /\ Replied(T_unlocked)
    /\ relay_pin /\ running /\ pc = "loop" /\ Cardinality(Registry) > 1

\* the notification of "rssi_started" failed: the scheduler is Active
C15_WitnessStart ==
    /\ Handled({T_start_rssi}) /\ ~notify_ok /\ Replied(T_rssi_started) /\ Active

\* ----------------------------------------------------------------------- C16

\* this step handles, for the same registered handle, the value the last step handled
ResendStep ==
    /\ ev.kind = "write" /\ ev.known
    /\ ev'.kind = "write" /\ ev'.known
    /\ ev'.h = ev.h /\ ev'.value = ev.value

C16_WitnessReading ==
    /\ Handled({RssiText(0 - 30)}) /\ Active /\ before.rssi_blink_active
    /\ current_rssi = 0 - 30 /\ Replied(T_rssi_updated_colon \o str(0 - 30))

\* ----------------------------------------------------------------------- C18

\* the last step was a tick that toggled the LED
SchedulerToggled == ev.kind = "tick" /\ led # before.led

\* C18: if from some point on the scheduler stays Active (monitoring enabled and a
\* connection in the registry), the loop toggles the LED again and again, whatever
\* the reading is and whatever else the centrals write.
C18_BlinkLive == (<>[]Active) => ([]<>SchedulerToggled)

\* the scheduler has toggled the LED at the slowest interval of the run, the
\* monitoring flag and the reading untouched since its previous toggle
C18_Witness ==
    /\ SchedulerToggled /\ steady /\ Active /\ current_rssi = 0 - 72 /\ since_blink_ms = SleepMs
    /\ Cardinality(Registry) > 1

\* ----------------------------------------------------------------------- C19

\* C19: the registry is empty at the start; a connect of h adds h to it (a handle
\* already present stays a single entry), a disconnect of a present h removes h
\* and nothing else, no other step changes the registry, and a disconnect of an
\* absent h leaves the registry, the monitoring flag, the LED, the relay and the
\* reading as they were.  So the registry holds exactly the handles connected and
\* not disconnected since, and only a disconnect makes it smaller or empty.
C19_RegistryTracksLinks ==
    /\ Registry = {}
    /\ [][ /\ (ev'.kind = "connect") =>
                 (Registry' = Registry \cup {ev'.h} /\ Cardinality(Registry') <= MaxHandles)
           /\ (ev'.kind = "disconnect" /\ ev'.known) => Registry' = Registry \ {ev'.h}
           /\ (ev'.kind = "disconnect" /\ ~ev'.known) =>
                 UNCHANGED <<connected_devices, rssi_blink_active, led, relay_pin, current_rssi>>
           /\ (ev'.kind \notin {"connect", "disconnect"}) => connected_devices' = connected_devices
           /\ (Registry' # Registry /\ Registry' \subseteq Registry) =>
                 (ev'.kind = "disconnect" /\ ev'.known) ]_vars

\* a handle that is not in the registry disconnected while another handle had the
\* scheduler Active, the LED on and the relay engaged
C19_Witness ==
    /\ ev.kind = "disconnect" /\ ~ev.known /\ ev.h \notin Registry
    /\ Active /\ led /\ relay_pin /\ current_rssi # DefaultRssi

\* a handle that was in the registry connected again
C19_WitnessReconnect ==
    /\ ev.kind = "connect" /\ ev.known /\ Registry = {ev.h}

\* ----------------------------------------------------------------------- C20

\* C20: when two registered handles have written different commands and both write
\* events wait, the callback that runs for the first event interprets the text
\* that handle wrote and answers that handle.
C20_InterpretsWhatWasWritten ==
    [][ (/\ Len(pending) = 2
         /\ pending[1].conn_handle # pending[2].conn_handle
         /\ pending[1].wrote # pending[2].wrote
         /\ ev'.kind = "write" /\ ev'.known) =>
           /\ ev'.h = Head(pending).conn_handle
           /\ ev'.value = Head(pending).wrote
           /\ Len(sent') = 1 /\ sent'[1].to = Head(pending).conn_handle ]_vars

\* the callback ran for the write event of one handle and read "unlock", the value
\* whose own write event, of another handle, is still waiting: the relay is engaged
\* and the first handle was answered "unlocked"
C20_WitnessOverwritten ==
    /\ ev.kind = "write" /\ ev.known /\ ev.value = T_unlock /\ Replied(T_unlocked)
    /\ Len(pending) = 1 /\ pending[1].conn_handle # ev.h /\ pending[1].wrote = T_unlock
    /\ relay_pin /\ ~led /\ ~before.led

====
